---------------------------- MODULE Spec2Model ----------------------------
(***************************************************************************)
(* A model of four components of the groupcache reading repository:        *)
(*                                                                         *)
(*   singleflight.Group  (src/groupcache/singleflight/singleflight.go)     *)
(*   lru.Cache           (src/groupcache/lru/lru.go, first file)           *)
(*   consistenthash.Map  (src/unnamed/part_000)                            *)
(*                                                                         *)
(*   HTTPPool            (src/groupcache/lru/lru.go, second file)          *)
(*                                                                         *)
(* Each component has its own specification (SpecSF, SpecLRU, SpecRing,    *)
(* SpecPool); the variables of the other components stay at their initial  *)
(* value.                                                                  *)
(***************************************************************************)
EXTENDS Integers, Sequences, FiniteSets, TLC

VARIABLES
    \* ---- singleflight.Group and its callers ----
    mu,          \* Group.mu: the caller holding the mutex, or NoProc
    m,           \* Group.m: key -> pointer to a call (index into calls)
    calls,       \* the heap of call structs: <<[wg, val, err], ...>>
    pc,          \* per caller: the line of Do it is about to execute
    key,         \* per caller: the key argument of its Do
    c,           \* per caller: its local variable c (pointer to a call)
    ret,         \* per caller: the (value, error) pair its last Do returned
    \* history of the singleflight run (not program state)
    fnOut,       \* per call struct: the pair the execution of fn returned
    callKey,     \* per call struct: the key it was registered under
    role,        \* per caller: "exec" or "wait" in its current/last Do
    invoked,     \* per key: number of Do invocations
    returned,    \* per key: number of Do returns
    fnRuns,      \* per key: number of fn executions started
    deletes,     \* per key: number of delete(g.m, key) executed
    lateLookups, \* per key: lookups made after a record of the key was deleted
    overlap,     \* per key: every Do so far was invoked before any returned
    seenDeletes, \* per caller: deletes of its key done when it invoked Do
    \* ---- lru.Cache ----
    MaxEntries,  \* Cache.MaxEntries (0: no limit)
    OnEvicted,   \* Cache.OnEvicted is set (TRUE) or nil (FALSE)
    ll,          \* Cache.ll: the entries [key, value], front of the list first
    cache,       \* Cache.cache: the keys of the map; a key maps to the list
                 \* element that carries it (lines 80-81)
    cacheNil,    \* Cache.cache == nil (and Cache.ll == nil: lines 158-159)
    evicted,     \* the calls OnEvicted has received so far: <<key, value>>
    got,         \* what the last Get returned: <<value, ok>>
    \* history of the cache run (not program state)
    hist,        \* keys by last access (Add or hit Get), latest first; a key
                 \* leaves it when Remove, RemoveOldest or Clear is called on it
    removedEver, \* Remove, RemoveOldest or Clear has been called
    lastOp,      \* name of the last operation
    nOps,        \* number of operations so far
    \* ---- consistenthash.Map ----
    replicas,    \* Map.replicas
    hash,        \* Map.hash: the name of the hash function in use
    keys,        \* Map.keys: the ring hashes
    hashMap,     \* Map.hashMap: ring hash -> member
    owner,       \* what the last Get returned: <<key, member>>
    \* history of the ring (not program state)
    added,       \* the members passed to Add so far, in order
    \* ---- HTTPPool and the threads calling Set and PickPeer ----
    self,        \* HTTPPool.self
    opts,        \* HTTPPool.opts: [Replicas, HashFn, BasePath]
    poolMu,      \* HTTPPool.mu: the thread holding it, or NoThread
    peers,       \* HTTPPool.peers: the consistenthash.Map it points to
    httpGetters, \* HTTPPool.httpGetters: peer -> getter
    tpc,         \* per thread: the line it is about to execute
    targ,        \* per thread: the argument of its call (peers or key)
    tidx,        \* per thread: position of the loop of lines 292-294
    picked,      \* per thread: what its last PickPeer returned
    \* history of the pool (not program state)
    seen,        \* per thread: the key, peers, httpGetters its PickPeer read
    seenSet,     \* per thread: the last completed Set when it read them
    current,     \* the argument of the last completed Set
    nCalls       \* number of Set and PickPeer calls so far

sfVars == <<mu, m, calls, pc, key, c, ret, fnOut, callKey, role,
            invoked, returned, fnRuns, deletes, lateLookups, overlap,
            seenDeletes>>

lruVars == <<MaxEntries, OnEvicted, ll, cache, cacheNil, evicted, got,
             hist, removedEver, lastOp, nOps>>

ringVars == <<replicas, hash, keys, hashMap, added, owner>>

poolVars == <<self, opts, poolMu, peers, httpGetters, tpc, targ, tidx,
              picked, seen, seenSet, current, nCalls>>

vars == <<sfVars, lruVars, ringVars, poolVars>>

\* the variables of the other components
notSF == <<lruVars, ringVars, poolVars>>
notLRU == <<sfVars, ringVars, poolVars>>
notRing == <<sfVars, lruVars, poolVars>>
notPool == <<sfVars, lruVars, ringVars>>


-----------------------------------------------------------------------------
(***************************************************************************)
(* consistenthash.Map.  A string is the sequence of its characters; the    *)
(* members and keys used are strings of decimal digits.                    *)
(***************************************************************************)

\* members that can be added, and the keys looked up
Members == {<<2>>, <<4>>, <<6>>, <<8>>}
ProbeKeys == {<<2>>, <<5>>, <<9>>, <<1, 1>>, <<1, 6>>, <<2, 3>>, <<2, 7>>}
EmptyString == <<>>

\* largest replicas tried, and number of members added in a run
MaxReplicas == 3
MaxMembers == 3

\* strconv.Itoa for i >= 0
RECURSIVE Itoa(_)
Itoa(i) == IF i < 10 THEN <<i>> ELSE Itoa(i \div 10) \o <<i % 10>>

\* the two hash functions tried for Hash (func(data []byte) uint32):
\* "decimal" reads the bytes as a decimal number, "digitsum" adds the digits
\* (the strings hashed here have at most three digits, so both stay far
\* below 2^32 and the conversion int(uint32) changes nothing)
RECURSIVE ParseDecimal(_)
ParseDecimal(str) ==
    IF str = <<>> THEN 0
    ELSE 10 * ParseDecimal(SubSeq(str, 1, Len(str) - 1)) + str[Len(str)]
RECURSIVE DigitSum(_)
DigitSum(str) ==
    IF str = <<>> THEN 0 ELSE str[1] + DigitSum(Tail(str))
HashNames == {"decimal", "digitsum"}
ApplyHash(h, data) == IF h = "decimal" THEN ParseDecimal(data) ELSE DigitSum(data)

\* sort.Ints: the sequence in ascending order
RECURSIVE SortInts(_)
Insert(x, sorted) ==
    LET n == Cardinality({i \in 1..Len(sorted) : sorted[i] <= x})
    IN  SubSeq(sorted, 1, n) \o <<x>> \o SubSeq(sorted, n + 1, Len(sorted))
SortInts(a) == IF a = <<>> THEN <<>> ELSE Insert(a[Len(a)], SortInts(SubSeq(a, 1, Len(a) - 1)))

\* sort.Search(n, f) with f(i) = ks[i] >= h: binary search on 0-based i, j
RECURSIVE SearchLoop(_, _, _, _)
SearchLoop(i, j, ks, h) ==
    IF i < j
    THEN LET mid == (i + j) \div 2
         IN  IF ~(ks[mid + 1] >= h)
             THEN SearchLoop(mid + 1, j, ks, h)
             ELSE SearchLoop(i, mid, ks, h)
    ELSE i
Search(ks, h) == SearchLoop(0, Len(ks), ks, h)

\* the ring as one value
Ring == [replicas |-> replicas, hash |-> hash, keys |-> keys, hashMap |-> hashMap]

\* New (lines 44-54)
MapNew(n, fn) ==
    /\ replicas = n
    /\ hash = fn
    /\ keys = <<>>
    /\ hashMap = <<>>

\* IsEmpty (lines 57-59)
IsEmpty(rm) == Len(rm.keys) = 0

\* lines 66-70 for one member: the replicas i, i+1, ... of member are appended
RECURSIVE AddReplicas(_, _, _)
AddReplicas(rm, member, i) ==
    IF i < rm.replicas
    THEN LET h == ApplyHash(rm.hash, Itoa(i) \o member)
         IN  AddReplicas([rm EXCEPT !.keys = Append(@, h),
                                    !.hashMap = [x \in DOMAIN @ \cup {h} |->
                                                    IF x = h THEN member ELSE @[x]]],
                         member, i + 1)
    ELSE rm

RECURSIVE AddMembers(_, _)

\* Add that starts from a fresh hashMap, dropping the earlier bindings
AddMembers_ResetMap(rm, members) ==
    LET RECURSIVE Loop(_, _)
        Loop(r, ms) == IF ms = <<>> THEN r
                       ELSE Loop(AddReplicas(r, Head(ms), 0), Tail(ms))
    IN  Loop([rm EXCEPT !.hashMap = <<>>], members)

\* lines 64-71: the loop over the members
AddMembers(rm, members) ==
    IF members = <<>> THEN rm
    ELSE AddMembers(AddReplicas(rm, Head(members), 0), Tail(members))

\* Add with the sort of line 73 forgotten
MapAdd_NoSort(rm, members) == AddMembers(rm, members)

\* Add (lines 63-74)
MapAdd(rm, members) ==
    LET r1 == AddMembers(rm, members)
    IN  [r1 EXCEPT !.keys = SortInts(@)]

\* m.hashMap[h]: a Go map yields the zero value "" for a missing key
MapIndex(hm, h) == IF h \in DOMAIN hm THEN hm[h] ELSE EmptyString

\* Get with "m.keys[i] > hash" for the search predicate
MapGet_Greater(rm, k) ==
    IF IsEmpty(rm) THEN EmptyString
    ELSE LET h == ApplyHash(rm.hash, k)
             n == Cardinality({i \in 1..Len(rm.keys) : rm.keys[i] <= h})
             idx == IF n = Len(rm.keys) THEN 0 ELSE n
         IN  MapIndex(rm.hashMap, rm.keys[idx + 1])

\* Get (lines 77-94)
MapGet(rm, k) ==
    IF IsEmpty(rm) THEN EmptyString
    ELSE LET h == ApplyHash(rm.hash, k)
             found == Search(rm.keys, h)
             idx == IF found = Len(rm.keys) THEN 0 ELSE found
         IN  MapIndex(rm.hashMap, rm.keys[idx + 1])

InitRing ==
    /\ \E n \in 0..MaxReplicas, fn \in HashNames : MapNew(n, fn)
    /\ owner = <<EmptyString, EmptyString>>
    /\ added = <<>>

\* the ring while another component runs
RingIdle ==
    /\ MapNew(0, "decimal")
    /\ owner = <<EmptyString, EmptyString>>
    /\ added = <<>>

\* m.Add(members...) with one or two members
RingAdd(members) ==
    /\ Len(added) + Len(members) <= MaxMembers
    /\ keys' = MapAdd(Ring, members).keys
    /\ hashMap' = MapAdd(Ring, members).hashMap
    /\ added' = added \o members
    /\ UNCHANGED <<replicas, hash, owner>>
    /\ UNCHANGED notRing

\* m.Get(k)
RingGet(k) ==
    /\ owner' = <<k, MapGet(Ring, k)>>
    /\ UNCHANGED <<replicas, hash, keys, hashMap, added>>
    /\ UNCHANGED notRing

NextRing ==
    \/ \E a \in Members : RingAdd(<<a>>)
    \/ \E a, b \in Members : RingAdd(<<a, b>>)
    \/ \E k \in ProbeKeys : RingGet(k)

-----------------------------------------------------------------------------
(***************************************************************************)
(* HTTPPool: Set and PickPeer (src/groupcache/lru/lru.go, lines 284-308)   *)
(***************************************************************************)

Threads == {"t1", "t2"}
NoThread == "none"
PoolPeers == {<<2>>, <<4>>, <<6>>}
PoolReplicas == {1, 3}
PoolKeys == {<<2>>, <<5>>, <<2, 7>>}
\* the peer lists passed to Set: none, one or two peers, with and without
\* the pool itself
PeerLists == {<<>>, << <<4>> >>} \cup
             {l \in {<<a, b>> : a \in PoolPeers, b \in PoolPeers} : l[1] # l[2]}
\* number of Set and PickPeer calls in a run
MaxPoolCalls == 3

\* "no Set has completed" (a list no caller passes), a nil ProtoGetter,
\* "nothing returned yet"
NoSet == << <<0>> >>
NilGetter == [baseURL |-> <<>>]
NoPick == [getter |-> NilGetter, found |-> FALSE, done |-> FALSE]
NoView == [key |-> <<>>, peers |-> <<>>, httpGetters |-> <<>>]

\* &httpGetter{baseURL: peer + p.opts.BasePath} (line 293)
Getter(peer) == [baseURL |-> <<peer, opts.BasePath>>]

\* consistenthash.New(p.opts.Replicas, p.opts.HashFn) (lines 274, 288)
NewPeers == [replicas |-> opts.Replicas, hash |-> opts.HashFn,
             keys |-> <<>>, hashMap |-> <<>>]

\* p.httpGetters[peer]: a Go map yields nil for a missing key
GetterIndex(hg, peer) == IF peer \in DOMAIN hg THEN hg[peer] ELSE NilGetter

\* PickPeer that hands out the getter of the owner even when it is self
PickPeerResult_NoSelfCheck(ps, hg, k) ==
    IF IsEmpty(ps) THEN [getter |-> NilGetter, found |-> FALSE, done |-> TRUE]
    ELSE [getter |-> GetterIndex(hg, MapGet(ps, k)), found |-> TRUE, done |-> TRUE]

\* PickPeer (lines 301-307): what it returns for the ring ps and getters hg
PickPeerResult(ps, hg, k) ==
    IF IsEmpty(ps) THEN [getter |-> NilGetter, found |-> FALSE, done |-> TRUE]
    ELSE IF MapGet(ps, k) # self
         THEN [getter |-> GetterIndex(hg, MapGet(ps, k)), found |-> TRUE,
               done |-> TRUE]
         ELSE [getter |-> NilGetter, found |-> FALSE, done |-> TRUE]

\* NewHTTPPoolOpts (lines 254-278) with Replicas and HashFn given
NewHTTPPoolOpts(me, replicas0, fn) ==
    /\ self = me
    /\ opts = [Replicas |-> replicas0, HashFn |-> fn, BasePath |-> "/_groupcache/"]
    /\ peers = [replicas |-> replicas0, hash |-> fn, keys |-> <<>>, hashMap |-> <<>>]
    /\ httpGetters = <<>>
    /\ poolMu = NoThread

PoolRest ==
    /\ tpc = [t \in Threads |-> "idle"]
    /\ targ = [t \in Threads |-> <<>>]
    /\ tidx = [t \in Threads |-> 0]
    /\ picked = [t \in Threads |-> NoPick]
    /\ seen = [t \in Threads |-> NoView]
    /\ seenSet = [t \in Threads |-> NoSet]
    /\ current = NoSet
    /\ nCalls = 0

InitPool ==
    /\ \E r \in PoolReplicas : NewHTTPPoolOpts(<<2>>, r, "decimal")
    /\ PoolRest

\* the pool while another component runs
PoolIdle ==
    /\ NewHTTPPoolOpts(<<2>>, 1, "decimal")
    /\ PoolRest

\* a thread calls p.Set(list...)
CallSet(t, list) ==
    /\ tpc[t] = "idle"
    /\ nCalls < MaxPoolCalls
    /\ nCalls' = nCalls + 1
    /\ tpc' = [tpc EXCEPT ![t] = "L285"]
    /\ targ' = [targ EXCEPT ![t] = list]
    /\ UNCHANGED <<self, opts, poolMu, peers, httpGetters, tidx, picked, seen,
                   seenSet, current>>
    /\ UNCHANGED notPool

\* line 285: p.mu.Lock()
SetLock(t) ==
    /\ tpc[t] = "L285"
    /\ poolMu = NoThread
    /\ poolMu' = t
    /\ tpc' = [tpc EXCEPT ![t] = "L288"]
    /\ UNCHANGED <<self, opts, peers, httpGetters, targ, tidx, picked, seen,
                   seenSet, current, nCalls>>
    /\ UNCHANGED notPool

\* line 288: p.peers = consistenthash.New(...)
SetNewRing(t) ==
    /\ tpc[t] = "L288"
    /\ peers' = NewPeers
    /\ tpc' = [tpc EXCEPT ![t] = "L289"]
    /\ UNCHANGED <<self, opts, poolMu, httpGetters, targ, tidx, picked, seen,
                   seenSet, current, nCalls>>
    /\ UNCHANGED notPool

\* line 289: p.peers.Add(peers...)
SetAdd(t) ==
    /\ tpc[t] = "L289"
    /\ peers' = MapAdd(peers, targ[t])
    /\ tpc' = [tpc EXCEPT ![t] = "L290"]
    /\ UNCHANGED <<self, opts, poolMu, httpGetters, targ, tidx, picked, seen,
                   seenSet, current, nCalls>>
    /\ UNCHANGED notPool

\* the loop of lines 292-294 started at the second peer
SetNewGetters_SkipFirst(t) ==
    /\ tpc[t] = "L290"
    /\ httpGetters' = <<>>
    /\ tidx' = [tidx EXCEPT ![t] = 2]
    /\ tpc' = [tpc EXCEPT ![t] = "L292"]
    /\ UNCHANGED <<self, opts, poolMu, peers, targ, picked, seen, seenSet,
                   current, nCalls>>
    /\ UNCHANGED notPool

\* line 290: p.httpGetters = make(map[string]*httpGetter, len(peers))
SetNewGetters(t) ==
    /\ tpc[t] = "L290"
    /\ httpGetters' = <<>>
    /\ tidx' = [tidx EXCEPT ![t] = 1]
    /\ tpc' = [tpc EXCEPT ![t] = "L292"]
    /\ UNCHANGED <<self, opts, poolMu, peers, targ, picked, seen, seenSet,
                   current, nCalls>>
    /\ UNCHANGED notPool

\* lines 292-294, one iteration: p.httpGetters[peer] = &httpGetter{...}
SetPut(t) ==
    /\ tpc[t] = "L292"
    /\ tidx[t] <= Len(targ[t])
    /\ httpGetters' = [x \in DOMAIN httpGetters \cup {targ[t][tidx[t]]} |->
                          IF x = targ[t][tidx[t]] THEN Getter(x) ELSE httpGetters[x]]
    /\ tidx' = [tidx EXCEPT ![t] = @ + 1]
    /\ UNCHANGED <<self, opts, poolMu, peers, tpc, targ, picked, seen, seenSet,
                   current, nCalls>>
    /\ UNCHANGED notPool

\* line 295 with the deferred p.mu.Unlock() of line 286: Set returns
SetReturn(t) ==
    /\ tpc[t] = "L292"
    /\ tidx[t] > Len(targ[t])
    /\ poolMu = t
    /\ poolMu' = NoThread
    /\ current' = targ[t]
    /\ tpc' = [tpc EXCEPT ![t] = "idle"]
    /\ UNCHANGED <<self, opts, peers, httpGetters, targ, tidx, picked, seen,
                   seenSet, nCalls>>
    /\ UNCHANGED notPool

\* a thread calls p.PickPeer(k)
CallPick(t, k) ==
    /\ tpc[t] = "idle"
    /\ nCalls < MaxPoolCalls
    /\ nCalls' = nCalls + 1
    /\ tpc' = [tpc EXCEPT ![t] = "L299"]
    /\ targ' = [targ EXCEPT ![t] = k]
    /\ picked' = [picked EXCEPT ![t] = NoPick]
    /\ seen' = [seen EXCEPT ![t] = NoView]
    /\ seenSet' = [seenSet EXCEPT ![t] = NoSet]
    /\ UNCHANGED <<self, opts, poolMu, peers, httpGetters, tidx, current>>
    /\ UNCHANGED notPool

\* PickPeer that enters without waiting for the holder of p.mu
PickLock_NoWait(t) ==
    /\ tpc[t] = "L299"
    /\ poolMu' = t
    /\ tpc' = [tpc EXCEPT ![t] = "L301"]
    /\ UNCHANGED <<self, opts, peers, httpGetters, targ, tidx, picked, seen,
                   seenSet, current, nCalls>>
    /\ UNCHANGED notPool

\* line 299: p.mu.Lock()
PickLock(t) ==
    /\ tpc[t] = "L299"
    /\ poolMu = NoThread
    /\ poolMu' = t
    /\ tpc' = [tpc EXCEPT ![t] = "L301"]
    /\ UNCHANGED <<self, opts, peers, httpGetters, targ, tidx, picked, seen,
                   seenSet, current, nCalls>>
    /\ UNCHANGED notPool

\* lines 301-307: the result is computed from p.peers and p.httpGetters
PickBody(t) ==
    /\ tpc[t] = "L301"
    /\ picked' = [picked EXCEPT ![t] = PickPeerResult(peers, httpGetters, targ[t])]
    /\ seen' = [seen EXCEPT ![t] = [key |-> targ[t], peers |-> peers,
                                  httpGetters |-> httpGetters]]
    /\ seenSet' = [seenSet EXCEPT ![t] = current]
    /\ tpc' = [tpc EXCEPT ![t] = "L308"]
    /\ UNCHANGED <<self, opts, poolMu, peers, httpGetters, targ, tidx, current,
                   nCalls>>
    /\ UNCHANGED notPool

\* the deferred p.mu.Unlock() of line 300: PickPeer returns
PickReturn(t) ==
    /\ tpc[t] = "L308"
    /\ poolMu = t
    /\ poolMu' = NoThread
    /\ tpc' = [tpc EXCEPT ![t] = "idle"]
    /\ UNCHANGED <<self, opts, peers, httpGetters, targ, tidx, picked, seen,
                   seenSet, current, nCalls>>
    /\ UNCHANGED notPool

NextPool ==
    \E t \in Threads :
        \/ \E list \in PeerLists : CallSet(t, list)
        \/ SetLock(t)
        \/ SetNewRing(t)
        \/ SetAdd(t)
        \/ SetNewGetters(t)
        \/ SetPut(t)
        \/ SetReturn(t)
        \/ \E k \in PoolKeys : CallPick(t, k)
        \/ PickLock(t)
        \/ PickBody(t)
        \/ PickReturn(t)

-----------------------------------------------------------------------------
(***************************************************************************)
(* lru.Cache                                                               *)
(***************************************************************************)

LruKeys == {"A", "B", "C"}
LruValues == {1, 2}
\* largest MaxEntries tried, and number of operations in a run
MaxCap == 2
MaxOps == 5

\* zero value of interface{} returned by a Get that misses
NilValue == 0

\* type entry struct { key; value }
Entry(k, v) == [key |-> k, value |-> v]

KeysOf(l) == {l[i].key : i \in 1..Len(l)}
\* the list element the map holds for key k
ElementOf(l, k) == CHOOSE i \in 1..Len(l) : l[i].key = k
\* container/list: MoveToFront, Remove, PushFront
MoveToFront(l, i) == <<l[i]>> \o SubSeq(l, 1, i - 1) \o SubSeq(l, i + 1, Len(l))
ListRemove(l, i) == SubSeq(l, 1, i - 1) \o SubSeq(l, i + 1, Len(l))
PushFront(l, e) == <<e>> \o l

\* the cache as one value, for the methods below
CacheState == [ll |-> ll, cache |-> cache, nil |-> cacheNil, evicted |-> evicted]

\* New (lines 56-62)
CacheNew(maxEntries) ==
    /\ MaxEntries = maxEntries
    /\ ll = <<>>
    /\ cache = {}
    /\ cacheNil = FALSE

\* removeElement that leaves the key in the map
removeElement_KeepMap(st, e) ==
    LET kv == st.ll[e] IN
    [st EXCEPT !.ll = ListRemove(st.ll, e),
               !.evicted = IF OnEvicted THEN Append(@, <<kv.key, kv.value>>)
                           ELSE @]

\* removeElement (lines 127-137); e is the position of the element in ll
removeElement(st, e) ==
    LET kv == st.ll[e] IN
    [st EXCEPT !.ll = ListRemove(st.ll, e),
               !.cache = @ \ {kv.key},
               !.evicted = IF OnEvicted THEN Append(@, <<kv.key, kv.value>>)
                           ELSE @]

\* RemoveOldest (lines 115-125)
CacheRemoveOldest(st) ==
    IF st.nil THEN st
    ELSE IF Len(st.ll) > 0 THEN removeElement(st, Len(st.ll))
    ELSE st

\* Add without the eviction of lines 83-85
CacheAdd_NoEvict(st, k, v) ==
    LET s0 == IF st.nil THEN [st EXCEPT !.ll = <<>>, !.cache = {}, !.nil = FALSE]
              ELSE st
    IN  IF k \in s0.cache
        THEN [s0 EXCEPT !.ll = [MoveToFront(s0.ll, ElementOf(s0.ll, k))
                                   EXCEPT ![1].value = v]]
        ELSE [s0 EXCEPT !.ll = PushFront(s0.ll, Entry(k, v)),
                        !.cache = @ \cup {k}]

\* Add that overwrites the value of a resident key where it stands
CacheAdd_NoMove(st, k, v) ==
    LET s0 == IF st.nil THEN [st EXCEPT !.ll = <<>>, !.cache = {}, !.nil = FALSE]
              ELSE st
    IN  IF k \in s0.cache
        THEN [s0 EXCEPT !.ll = [s0.ll EXCEPT ![ElementOf(s0.ll, k)].value = v]]
        ELSE LET s1 == [s0 EXCEPT !.ll = PushFront(s0.ll, Entry(k, v)),
                                  !.cache = @ \cup {k}]
             IN  IF MaxEntries # 0 /\ Len(s1.ll) > MaxEntries
                 THEN CacheRemoveOldest(s1)
                 ELSE s1

\* Add (lines 65-86)
CacheAdd(st, k, v) ==
    LET s0 == IF st.nil THEN [st EXCEPT !.ll = <<>>, !.cache = {}, !.nil = FALSE]
              ELSE st
    IN  IF k \in s0.cache
        THEN [s0 EXCEPT !.ll = [MoveToFront(s0.ll, ElementOf(s0.ll, k))
                                   EXCEPT ![1].value = v]]
        ELSE LET s1 == [s0 EXCEPT !.ll = PushFront(s0.ll, Entry(k, v)),
                                  !.cache = @ \cup {k}]
             IN  IF MaxEntries # 0 /\ Len(s1.ll) > MaxEntries
                 THEN CacheRemoveOldest(s1)
                 ELSE s1

\* Get without the MoveToFront of line 96
CacheGet_NoMove(st, k) == st

\* Get (lines 89-100): the cache afterwards
CacheGet(st, k) ==
    IF st.nil THEN st
    ELSE IF k \in st.cache
         THEN [st EXCEPT !.ll = MoveToFront(st.ll, ElementOf(st.ll, k))]
         ELSE st

\* Get (lines 89-100): the (value, ok) returned
CacheGetResult(st, k) ==
    IF st.nil THEN <<NilValue, FALSE>>
    ELSE IF k \in st.cache
         THEN <<st.ll[ElementOf(st.ll, k)].value, TRUE>>
         ELSE <<NilValue, FALSE>>

\* Remove that reports the key to OnEvicted without looking it up
CacheRemove_Unchecked(st, k) ==
    IF st.nil THEN st
    ELSE IF k \in st.cache THEN removeElement(st, ElementOf(st.ll, k))
    ELSE [st EXCEPT !.evicted = IF OnEvicted THEN Append(@, <<k, NilValue>>)
                                ELSE @]

\* Remove (lines 103-111)
CacheRemove(st, k) ==
    IF st.nil THEN st
    ELSE IF k \in st.cache THEN removeElement(st, ElementOf(st.ll, k))
    ELSE st

\* Len (lines 140-145)
CacheLen(st) == IF st.nil THEN 0 ELSE Len(st.ll)

\* the orders in which "for _, e := range c.cache" may visit the map
RangeOrders(S) ==
    {o \in [1..Cardinality(S) -> S] : \A i, j \in DOMAIN o : i # j => o[i] # o[j]}

\* Clear that drops the entries without calling OnEvicted
CacheClear_Silent(st, o) ==
    [st EXCEPT !.ll = <<>>, !.cache = {}, !.nil = TRUE]

\* Clear (lines 149-160), the map being visited in order o
CacheClear(st, o) ==
    [st EXCEPT !.evicted =
                   IF OnEvicted
                   THEN @ \o [i \in DOMAIN o |->
                                 <<st.ll[ElementOf(st.ll, o[i])].key,
                                   st.ll[ElementOf(st.ll, o[i])].value>>]
                   ELSE @,
               !.ll = <<>>,
               !.cache = {},
               !.nil = TRUE]

\* history: key k was accessed / was asked to be removed
Touch(h, k) == <<k>> \o SelectSeq(h, LAMBDA x : x # k)
Drop(h, k) == SelectSeq(h, LAMBDA x : x # k)

\* the variables take the value st
Becomes(st) ==
    /\ ll' = st.ll
    /\ cache' = st.cache
    /\ cacheNil' = st.nil
    /\ evicted' = st.evicted

InitLRU ==
    /\ \E n \in 0..MaxCap : CacheNew(n)
    /\ OnEvicted \in BOOLEAN
    /\ evicted = <<>>
    /\ got = <<NilValue, FALSE>>
    /\ hist = <<>>
    /\ removedEver = FALSE
    /\ lastOp = "New"
    /\ nOps = 0

\* the cache while another component runs
LruIdle ==
    /\ CacheNew(0)
    /\ OnEvicted = FALSE
    /\ evicted = <<>>
    /\ got = <<NilValue, FALSE>>
    /\ hist = <<>>
    /\ removedEver = FALSE
    /\ lastOp = "New"
    /\ nOps = 0

Op(name) ==
    /\ nOps < MaxOps
    /\ nOps' = nOps + 1
    /\ lastOp' = name
    /\ UNCHANGED <<MaxEntries, OnEvicted>>
    /\ UNCHANGED notLRU

LruAdd(k, v) ==
    /\ Op("Add")
    /\ Becomes(CacheAdd(CacheState, k, v))
    /\ hist' = Touch(hist, k)
    /\ UNCHANGED <<got, removedEver>>

LruGet(k) ==
    /\ Op("Get")
    /\ Becomes(CacheGet(CacheState, k))
    /\ got' = CacheGetResult(CacheState, k)
    /\ hist' = IF CacheGetResult(CacheState, k)[2] THEN Touch(hist, k) ELSE hist
    /\ UNCHANGED removedEver

LruRemove(k) ==
    /\ Op("Remove")
    /\ Becomes(CacheRemove(CacheState, k))
    /\ hist' = Drop(hist, k)
    /\ removedEver' = TRUE
    /\ UNCHANGED got

LruRemoveOldest ==
    /\ Op("RemoveOldest")
    /\ Becomes(CacheRemoveOldest(CacheState))
    /\ hist' = IF KeysOf(ll) = KeysOf(CacheRemoveOldest(CacheState).ll) THEN hist
               ELSE Drop(hist, CHOOSE k \in KeysOf(ll) :
                                  k \notin KeysOf(CacheRemoveOldest(CacheState).ll))
    /\ removedEver' = TRUE
    /\ UNCHANGED got

LruClear ==
    /\ Op("Clear")
    /\ \E o \in RangeOrders(cache) : Becomes(CacheClear(CacheState, o))
    /\ hist' = <<>>
    /\ removedEver' = TRUE
    /\ UNCHANGED got

NextLRU ==
    \/ \E k \in LruKeys, v \in LruValues : LruAdd(k, v)
    \/ \E k \in LruKeys : LruGet(k)
    \/ \E k \in LruKeys : LruRemove(k)
    \/ LruRemoveOldest
    \/ LruClear


-----------------------------------------------------------------------------
(***************************************************************************)
(* singleflight                                                            *)
(***************************************************************************)

\* callers (goroutines) and the keys they use
Procs == {"g1", "g2", "g3"}
SFKeys == {"k1", "k2"}
NoProc == "none"

\* total number of Do invocations in a run
MaxDo == 3

\* what fn may return: (value, error)
Outcomes == {<<"v1", "nil">>, <<"nil", "e1">>}
\* "nothing returned yet"
NoRet == <<"none", "none">>

\* type call struct { wg; val; err }   (wg is the WaitGroup counter)
NewCall == [wg |-> 0, val |-> "nil", err |-> "nil"]

TotalInvoked == invoked["k1"] + invoked["k2"]

InitSF ==
    /\ mu = NoProc
    /\ m = <<>>
    /\ calls = <<>>
    /\ pc = [p \in Procs |-> "idle"]
    /\ key = [p \in Procs |-> "k1"]
    /\ c = [p \in Procs |-> 0]
    /\ ret = [p \in Procs |-> NoRet]
    /\ fnOut = <<>>
    /\ callKey = <<>>
    /\ role = [p \in Procs |-> "none"]
    /\ invoked = [k \in SFKeys |-> 0]
    /\ returned = [k \in SFKeys |-> 0]
    /\ fnRuns = [k \in SFKeys |-> 0]
    /\ deletes = [k \in SFKeys |-> 0]
    /\ lateLookups = [k \in SFKeys |-> 0]
    /\ overlap = [k \in SFKeys |-> TRUE]
    /\ seenDeletes = [p \in Procs |-> 0]

\* a caller invokes g.Do(k, fn)
Call(p, k) ==
    /\ pc[p] = "idle"
    /\ TotalInvoked < MaxDo
    /\ pc' = [pc EXCEPT ![p] = "L51"]
    /\ key' = [key EXCEPT ![p] = k]
    /\ c' = [c EXCEPT ![p] = 0]
    /\ ret' = [ret EXCEPT ![p] = NoRet]
    /\ role' = [role EXCEPT ![p] = "none"]
    /\ invoked' = [invoked EXCEPT ![k] = @ + 1]
    /\ overlap' = [overlap EXCEPT ![k] = @ /\ returned[k] = 0]
    /\ seenDeletes' = [seenDeletes EXCEPT ![p] = deletes[k]]
    /\ UNCHANGED <<mu, m, calls, fnOut, callKey, returned, fnRuns, deletes,
                   lateLookups>>
    /\ UNCHANGED notSF

\* line 51: g.mu.Lock()
Lock51(p) ==
    /\ pc[p] = "L51"
    /\ mu = NoProc
    /\ mu' = p
    /\ pc' = [pc EXCEPT ![p] = "L52"]
    /\ UNCHANGED <<m, calls, key, c, ret, fnOut, callKey, role, invoked,
                   returned, fnRuns, deletes, lateLookups, overlap,
                   seenDeletes>>
    /\ UNCHANGED notSF

\* lines 55-64, record found: c = g.m[key]; g.mu.Unlock(); go on to c.wg.Wait()
LookupHit(p) ==
    /\ key[p] \in DOMAIN m
    /\ c' = [c EXCEPT ![p] = m[key[p]]]
    /\ mu' = NoProc
    /\ pc' = [pc EXCEPT ![p] = "L61"]
    /\ role' = [role EXCEPT ![p] = "wait"]
    /\ UNCHANGED <<m, calls, fnOut, callKey>>

\* LookupMiss with "g.m[key] = c" forgotten: the record is never registered
LookupMiss_NoRegister(p) ==
    /\ key[p] \notin DOMAIN m
    /\ calls' = Append(calls, [NewCall EXCEPT !.wg = 1])
    /\ fnOut' = Append(fnOut, NoRet)
    /\ callKey' = Append(callKey, key[p])
    /\ m' = m
    /\ c' = [c EXCEPT ![p] = Len(calls) + 1]
    /\ mu' = NoProc
    /\ pc' = [pc EXCEPT ![p] = "L73"]
    /\ role' = [role EXCEPT ![p] = "exec"]

\* LookupMiss with the Unlock of line 70 moved after fn: mu stays held
LookupMiss_KeepLock(p) ==
    /\ key[p] \notin DOMAIN m
    /\ calls' = Append(calls, [NewCall EXCEPT !.wg = 1])
    /\ fnOut' = Append(fnOut, NoRet)
    /\ callKey' = Append(callKey, key[p])
    /\ m' = [k \in DOMAIN m \cup {key[p]} |->
                IF k = key[p] THEN Len(calls) + 1 ELSE m[k]]
    /\ c' = [c EXCEPT ![p] = Len(calls) + 1]
    /\ mu' = mu
    /\ pc' = [pc EXCEPT ![p] = "L73"]
    /\ role' = [role EXCEPT ![p] = "exec"]

\* lines 67-70, no record: c := new(call); c.wg.Add(1); g.m[key] = c; Unlock
LookupMiss(p) ==
    /\ key[p] \notin DOMAIN m
    /\ calls' = Append(calls, [NewCall EXCEPT !.wg = 1])
    /\ fnOut' = Append(fnOut, NoRet)
    /\ callKey' = Append(callKey, key[p])
    /\ m' = [k \in DOMAIN m \cup {key[p]} |->
                IF k = key[p] THEN Len(calls) + 1 ELSE m[k]]
    /\ c' = [c EXCEPT ![p] = Len(calls) + 1]
    /\ mu' = NoProc
    /\ pc' = [pc EXCEPT ![p] = "L73"]
    /\ role' = [role EXCEPT ![p] = "exec"]

\* Lookup with the test of line 55 dropped: every caller makes a new record
Lookup_AlwaysNew(p) ==
    /\ pc[p] = "L52"
    /\ mu = p
    /\ calls' = Append(calls, [NewCall EXCEPT !.wg = 1])
    /\ fnOut' = Append(fnOut, NoRet)
    /\ callKey' = Append(callKey, key[p])
    /\ m' = [k \in DOMAIN m \cup {key[p]} |->
                IF k = key[p] THEN Len(calls) + 1 ELSE m[k]]
    /\ c' = [c EXCEPT ![p] = Len(calls) + 1]
    /\ mu' = NoProc
    /\ pc' = [pc EXCEPT ![p] = "L73"]
    /\ role' = [role EXCEPT ![p] = "exec"]
    /\ lateLookups' = [lateLookups EXCEPT
                         ![key[p]] = IF deletes[key[p]] > 0 THEN @ + 1 ELSE @]
    /\ UNCHANGED <<key, ret, invoked, returned, fnRuns, deletes, overlap,
                   seenDeletes>>
    /\ UNCHANGED notSF

\* lines 52-70, executed while holding g.mu
Lookup(p) ==
    /\ pc[p] = "L52"
    /\ mu = p
    /\ (LookupHit(p) \/ LookupMiss(p))
    /\ lateLookups' = [lateLookups EXCEPT
                         ![key[p]] = IF deletes[key[p]] > 0 THEN @ + 1 ELSE @]
    /\ UNCHANGED <<key, ret, invoked, returned, fnRuns, deletes, overlap,
                   seenDeletes>>
    /\ UNCHANGED notSF

\* line 73, the call of fn: fn starts executing
FnStart(p) ==
    /\ pc[p] = "L73"
    /\ pc' = [pc EXCEPT ![p] = "fn"]
    /\ fnRuns' = [fnRuns EXCEPT ![key[p]] = @ + 1]
    /\ UNCHANGED <<mu, m, calls, key, c, ret, fnOut, callKey, role, invoked,
                   returned, deletes, lateLookups, overlap,
                   seenDeletes>>
    /\ UNCHANGED notSF

\* line 73, fn returns out: c.val, c.err = fn()
FnReturn(p, out) ==
    /\ pc[p] = "fn"
    /\ calls' = [calls EXCEPT ![c[p]].val = out[1], ![c[p]].err = out[2]]
    /\ fnOut' = [fnOut EXCEPT ![c[p]] = out]
    /\ pc' = [pc EXCEPT ![p] = "L74"]
    /\ UNCHANGED <<mu, m, key, c, ret, callKey, role, invoked, returned,
                   fnRuns, deletes, lateLookups, overlap,
                   seenDeletes>>
    /\ UNCHANGED notSF

\* Do without the c.wg.Done() of line 74: the barrier is never released
Done_Forgotten(p) ==
    /\ pc[p] = "L74"
    /\ pc' = [pc EXCEPT ![p] = "L77"]
    /\ UNCHANGED <<mu, m, calls, key, c, ret, fnOut, callKey, role, invoked,
                   returned, fnRuns, deletes, lateLookups, overlap,
                   seenDeletes>>
    /\ UNCHANGED notSF

\* line 74: c.wg.Done()
Done(p) ==
    /\ pc[p] = "L74"
    /\ calls' = [calls EXCEPT ![c[p]].wg = @ - 1]
    /\ pc' = [pc EXCEPT ![p] = "L77"]
    /\ UNCHANGED <<mu, m, key, c, ret, fnOut, callKey, role, invoked,
                   returned, fnRuns, deletes, lateLookups, overlap,
                   seenDeletes>>
    /\ UNCHANGED notSF

\* line 77: g.mu.Lock()
Lock77(p) ==
    /\ pc[p] = "L77"
    /\ mu = NoProc
    /\ mu' = p
    /\ pc' = [pc EXCEPT ![p] = "L78"]
    /\ UNCHANGED <<m, calls, key, c, ret, fnOut, callKey, role, invoked,
                   returned, fnRuns, deletes, lateLookups, overlap,
                   seenDeletes>>
    /\ UNCHANGED notSF

\* Delete that keeps the record when fn failed (delete only on success)
Delete_OnlyOnSuccess(p) ==
    /\ pc[p] = "L78"
    /\ mu = p
    /\ m' = IF calls[c[p]].err = "nil"
            THEN [k \in DOMAIN m \ {key[p]} |-> m[k]]
            ELSE m
    /\ mu' = NoProc
    /\ pc' = [pc EXCEPT ![p] = "L81"]
    /\ deletes' = [deletes EXCEPT ![key[p]] = @ + 1]
    /\ UNCHANGED <<calls, key, c, ret, fnOut, callKey, role, invoked,
                   returned, fnRuns, lateLookups, overlap, seenDeletes>>
    /\ UNCHANGED notSF

\* Delete that empties the registry instead of removing its own key
Delete_AllKeys(p) ==
    /\ pc[p] = "L78"
    /\ mu = p
    /\ m' = <<>>
    /\ mu' = NoProc
    /\ pc' = [pc EXCEPT ![p] = "L81"]
    /\ deletes' = [deletes EXCEPT ![key[p]] = @ + 1]
    /\ UNCHANGED <<calls, key, c, ret, fnOut, callKey, role, invoked,
                   returned, fnRuns, lateLookups, overlap, seenDeletes>>
    /\ UNCHANGED notSF

\* lines 78-79: delete(g.m, key); g.mu.Unlock()
Delete(p) ==
    /\ pc[p] = "L78"
    /\ mu = p
    /\ m' = [k \in DOMAIN m \ {key[p]} |-> m[k]]
    /\ mu' = NoProc
    /\ pc' = [pc EXCEPT ![p] = "L81"]
    /\ deletes' = [deletes EXCEPT ![key[p]] = @ + 1]
    /\ UNCHANGED <<calls, key, c, ret, fnOut, callKey, role, invoked,
                   returned, fnRuns, lateLookups, overlap,
                   seenDeletes>>
    /\ UNCHANGED notSF

\* Wait that does not block on the WaitGroup counter
Wait_NoBarrier(p) ==
    /\ pc[p] = "L61"
    /\ pc' = [pc EXCEPT ![p] = "L63"]
    /\ UNCHANGED <<mu, m, calls, key, c, ret, fnOut, callKey, role, invoked,
                   returned, fnRuns, deletes, lateLookups, overlap,
                   seenDeletes>>
    /\ UNCHANGED notSF

\* line 61: c.wg.Wait() returns once the counter is zero
Wait(p) ==
    /\ pc[p] = "L61"
    /\ calls[c[p]].wg = 0
    /\ pc' = [pc EXCEPT ![p] = "L63"]
    /\ UNCHANGED <<mu, m, calls, key, c, ret, fnOut, callKey, role, invoked,
                   returned, fnRuns, deletes, lateLookups, overlap,
                   seenDeletes>>
    /\ UNCHANGED notSF

\* lines 63 and 81: return c.val, c.err
Return(p) ==
    /\ pc[p] \in {"L63", "L81"}
    /\ ret' = [ret EXCEPT ![p] = <<calls[c[p]].val, calls[c[p]].err>>]
    /\ pc' = [pc EXCEPT ![p] = "idle"]
    /\ returned' = [returned EXCEPT ![key[p]] = @ + 1]
    /\ UNCHANGED <<mu, m, calls, key, c, fnOut, callKey, role, invoked,
                   fnRuns, deletes, lateLookups, overlap,
                   seenDeletes>>
    /\ UNCHANGED notSF

NextSF ==
    \E p \in Procs :
        \/ \E k \in SFKeys : Call(p, k)
        \/ Lock51(p)
        \/ Lookup(p)
        \/ FnStart(p)
        \/ \E out \in Outcomes : FnReturn(p, out)
        \/ Done(p)
        \/ Lock77(p)
        \/ Delete(p)
        \/ Wait(p)
        \/ Return(p)

InitSpecSF == InitSF /\ LruIdle /\ RingIdle /\ PoolIdle

SpecSF == InitSpecSF /\ [][NextSF]_vars

\* the steps of p inside Do: everything but the invocation of Do itself
Proceed(p) ==
    \/ Lock51(p)
    \/ Lookup(p)
    \/ FnStart(p)
    \/ \E out \in Outcomes : FnReturn(p, out)
    \/ Done(p)
    \/ Lock77(p)
    \/ Delete(p)
    \/ Wait(p)
    \/ Return(p)

\* the Go scheduler runs some runnable goroutine, every fn that was started
\* returns, a free mutex is handed to a goroutine waiting in Lock and a
\* goroutine parked in wg.Wait() is woken once the counter is zero: while a
\* step inside some Do can be taken, one is taken.  No caller is obliged to
\* invoke Do.
Fairness == WF_vars(\E p \in Procs : Proceed(p))

\* number of Do invocations in a run of the fair specification
MaxFairDo == 2

\* a caller invokes g.Do(k, fn), in a run of at most MaxFairDo invocations
CallFair(p, k) ==
    /\ TotalInvoked < MaxFairDo
    /\ Call(p, k)

NextFairSF ==
    \E p \in Procs :
        \/ \E k \in SFKeys : CallFair(p, k)
        \/ Proceed(p)

FairSpecSF == InitSpecSF /\ [][NextFairSF]_vars /\ Fairness

-----------------------------------------------------------------------------
(***************************************************************************)
(* singleflight: properties                                                *)
(***************************************************************************)

\* the call structs registered under key k so far
RecordsOf(k) == {i \in 1..Len(calls) : callKey[i] = k}
\* how many records of the same key were made before record i
Serial(i) == Cardinality({j \in 1..(i - 1) : callKey[j] = callKey[i]})
\* caller p has returned from its Do
HasReturned(p) == pc[p] = "idle" /\ ret[p] # NoRet
\* the executor of a record has not yet executed its delete
Unfinished(p) == role[p] = "exec" /\ pc[p] \in {"L73", "fn", "L74", "L77", "L78"}

\* C1 as stated: for Do calls on one key that all overlap (each was invoked
\* before any of them returned), once all have returned fn has executed
\* exactly once.
C1_ExactlyOnce ==
    \A k \in SFKeys :
        (overlap[k] /\ invoked[k] >= 2 /\ returned[k] = invoked[k])
            => fnRuns[k] = 1

\* C1 amended: fn executes once per registered record.  A caller whose lookup
\* finds a record never executes fn; the executions of fn for a key number at
\* most one plus the lookups made after a record of that key was unregistered
\* (so exactly one when every lookup comes before the first delete), at least
\* one once the calls have returned, and never more than the calls.
C1_OncePerRecord ==
    \A k \in SFKeys :
        /\ fnRuns[k] <= 1 + lateLookups[k]
        /\ fnRuns[k] <= Cardinality(RecordsOf(k))
        /\ Cardinality(RecordsOf(k)) <= invoked[k]
        /\ (invoked[k] >= 1 /\ returned[k] = invoked[k])
              => /\ fnRuns[k] >= 1
                 /\ fnRuns[k] = Cardinality(RecordsOf(k))
        /\ \A p \in Procs : role[p] = "wait" => pc[p] \in {"L61", "L63", "idle"}

\* three overlapping calls on k1 have all returned and fn ran once
C1_Witness ==
    /\ overlap["k1"]
    /\ invoked["k1"] = 3
    /\ returned["k1"] = 3
    /\ fnRuns["k1"] = 1

\* C2: at most one execution of fn is in flight for a key: two callers with
\* the same key are never both between the start and the return of their fn.
C2_OneInFlight ==
    \A p, q \in Procs :
        (p # q /\ pc[p] = "fn" /\ pc[q] = "fn") => key[p] # key[q]

\* fn is in flight for a key while two other callers of that key wait on it
C2_Witness ==
    \E p, q, r \in Procs :
        /\ p # q /\ p # r /\ q # r
        /\ pc[p] = "fn" /\ pc[q] = "L61" /\ pc[r] = "L61"
        /\ key[q] = key[p] /\ key[r] = key[p]

\* C3: a caller that waited on a record returns the (value, error) pair the
\* one execution of fn stored in it, the same pair the executor returns; it
\* passes the barrier only after the outcome is stored, and every returned
\* pair is fn's own, error included.
C3_SharedOutcome ==
    /\ \A p \in Procs :
          (pc[p] = "L63" \/ HasReturned(p)) =>
              /\ fnOut[c[p]] \in Outcomes
              /\ calls[c[p]].wg = 0
              /\ <<calls[c[p]].val, calls[c[p]].err>> = fnOut[c[p]]
    /\ \A p \in Procs : HasReturned(p) => ret[p] = fnOut[c[p]]
    /\ \A p, q \in Procs :
          (HasReturned(p) /\ HasReturned(q) /\ c[p] = c[q]) => ret[p] = ret[q]

\* a waiter and the executor of the same record both returned fn's error
C3_Witness ==
    \E p, q \in Procs :
        /\ role[p] = "wait" /\ role[q] = "exec" /\ c[p] = c[q]
        /\ HasReturned(p) /\ HasReturned(q)
        /\ ret[p] = <<"nil", "e1">> /\ ret[q] = <<"nil", "e1">>

\* C4: once the executor is past its delete the record is out of the registry,
\* whatever fn returned; the registry holds only records whose executor has
\* not yet deleted; and a caller that invokes Do(k) after n records of k were
\* removed never receives one of those n records (it gets a fresh execution).
C4_RecordRemoved ==
    /\ \A p \in Procs :
          (role[p] = "exec" /\ (pc[p] = "L81" \/ HasReturned(p))) =>
              (key[p] \notin DOMAIN m \/ m[key[p]] # c[p])
    /\ \A k \in DOMAIN m :
          /\ callKey[m[k]] = k
          /\ \E p \in Procs : Unfinished(p) /\ c[p] = m[k] /\ key[p] = k
    /\ \A k \in SFKeys : deletes[k] <= Cardinality(RecordsOf(k))
    /\ \A p \in Procs :
          c[p] # 0 => (callKey[c[p]] = key[p] /\ Serial(c[p]) >= seenDeletes[p])

\* fn of the first record of k1 failed, the record was removed, and a caller
\* that invoked Do(k1) afterwards ran fn again and got a value
C4_Witness ==
    \E p \in Procs :
        /\ Len(calls) >= 2
        /\ callKey[1] = "k1" /\ callKey[2] = "k1"
        /\ fnOut[1] = <<"nil", "e1">>
        /\ role[p] = "exec" /\ c[p] = 2 /\ seenDeletes[p] = 1
        /\ HasReturned(p) /\ ret[p] = <<"v1", "nil">>

\* C5: no caller holds the registry mutex while its fn runs (the mutex is held
\* only at lines 52-70 and 78), and a caller blocked on a barrier waits on a
\* record of its own key, so nobody waits for the fn of another key.
C5_NoLockAcrossFn ==
    /\ \A p \in Procs : mu = p => pc[p] \in {"L52", "L78"}
    /\ \A p \in Procs : pc[p] \in {"L73", "fn", "L74"} => mu # p
    /\ \A p \in Procs : pc[p] = "L61" => callKey[c[p]] = key[p]

\* fn of k1 and fn of k2 are both in flight while a third caller holds the mutex
C5_Witness ==
    \E p, q, r \in Procs :
        /\ pc[p] = "fn" /\ key[p] = "k1"
        /\ pc[q] = "fn" /\ key[q] = "k2"
        /\ mu = r /\ pc[r] = "L52"

\* C17: under fair scheduling, and with every fn returning, every caller
\* that is inside Do eventually returns from it: none stays blocked on the
\* registry mutex (lines 51, 77) or on the barrier of a record (line 61).
C17_EventuallyReturns ==
    \A p \in Procs : (pc[p] # "idle") ~> (pc[p] = "idle")

\* g2, which was parked on the barrier of g1's record while g1 executed fn,
\* has returned with g1's result; g1 has released the barrier and is about
\* to take the registry mutex for its delete
C17_Witness ==
    /\ invoked["k1"] = 2
    /\ role["g1"] = "exec" /\ pc["g1"] = "L77"
    /\ role["g2"] = "wait" /\ c["g2"] = c["g1"] /\ HasReturned("g2")

\* C18: the registry holds a record for key k exactly while the caller that
\* created it is between registering it and its own delete: every executor
\* that has not yet deleted finds its own record under its key (so the
\* delete of line 78 removes the record the deleting caller created, never
\* another caller's), every registered record has exactly one such executor,
\* and the registry is empty when no Do is in progress.
C18_RecordLifetime ==
    /\ \A p \in Procs :
           Unfinished(p) => (key[p] \in DOMAIN m /\ m[key[p]] = c[p])
    /\ \A k \in DOMAIN m :
           Cardinality({p \in Procs : Unfinished(p) /\ key[p] = k /\ c[p] = m[k]}) = 1
    /\ (\A p \in Procs : pc[p] = "idle") => m = <<>>

\* g1 is about to delete its record of k1 while g2's record of k2 is
\* registered and g3 has already deleted an earlier record
C18_Witness ==
    /\ pc["g1"] = "L78" /\ key["g1"] = "k1" /\ m["k1"] = c["g1"]
    /\ Unfinished("g2") /\ key["g2"] = "k2" /\ m["k2"] = c["g2"]
    /\ role["g3"] = "exec" /\ HasReturned("g3")

-----------------------------------------------------------------------------
(***************************************************************************)
(* lru.Cache: properties                                                   *)
(***************************************************************************)

InitSpecLRU == InitLRU /\ InitSF /\ RingIdle /\ PoolIdle

SpecLRU == InitSpecLRU /\ [][NextLRU]_vars

Min(a, b) == IF a <= b THEN a ELSE b
\* the keys of the list, front first
KeySeq(l) == [i \in 1..Len(l) |-> l[i].key]
\* the resident keys: held by the list and by the map
Resident == KeysOf(ll) \cap cache
\* the live keys that are resident, latest access first
ResidentByAccess == SelectSeq(hist, LAMBDA k : k \in KeysOf(ll))

\* C6 as stated: with capacity C > 0, Len() <= C and the min(C, live keys)
\* most recently accessed live keys are all resident, where a key is live
\* from its Add until a Remove, RemoveOldest or Clear is called on it.
C6_RecentResident ==
    MaxEntries > 0 =>
        /\ CacheLen(CacheState) <= MaxEntries
        /\ \A i \in 1..Min(MaxEntries, Len(hist)) : hist[i] \in Resident

\* C6 amended: with capacity C > 0, Len() <= C and the resident keys are
\* exactly the Len() most recently accessed live keys; Len() equals
\* min(C, live keys) as long as no Remove, RemoveOldest or Clear was called.
C6_BoundAndRecency ==
    MaxEntries > 0 =>
        /\ CacheLen(CacheState) <= MaxEntries
        /\ CacheLen(CacheState) <= Len(hist)
        /\ Resident = {hist[i] : i \in 1..CacheLen(CacheState)}
        /\ Cardinality(Resident) = CacheLen(CacheState)
        /\ ~removedEver => CacheLen(CacheState) = Min(MaxEntries, Len(hist))

\* three distinct keys were added to a cache of capacity 2: one was evicted
C6_Witness ==
    /\ MaxEntries = 2
    /\ ~removedEver
    /\ Len(hist) = 3
    /\ CacheLen(CacheState) = 2

\* the positions of the entries of ll that are gone after the step
Leaving == {i \in 1..Len(ll) : ll[i].key \notin KeysOf(ll')}

\* C7: in every step, when OnEvicted is set it receives exactly one call
\* (key, current value) for each entry that leaves the cache in that step, by
\* capacity eviction, Remove, RemoveOldest or Clear, and no other call; when
\* it is nil nothing is called.
C7_CallbackExact ==
    [][IF OnEvicted
       THEN /\ Len(evicted') = Len(evicted) + Cardinality(Leaving)
            /\ SubSeq(evicted', 1, Len(evicted)) = evicted
            /\ {evicted'[j] : j \in (Len(evicted) + 1)..Len(evicted')}
                   = {<<ll[i].key, ll[i].value>> : i \in Leaving}
       ELSE evicted' = evicted]_vars

\* capacity 2: A was evicted by the third Add, its value having been replaced
\* before, and Clear then reported the two remaining entries
C7_Witness ==
    /\ OnEvicted
    /\ lastOp = "Clear"
    /\ evicted = <<<<"A", 2>>, <<"C", 1>>, <<"B", 2>>>>

\* C8: the list order is the order of last access (Add or hit Get), latest
\* first, so an Add or a hit Get leaves its key at the front; and the entry
\* that RemoveOldest or an over-capacity Add removes is the resident key
\* whose last access is the oldest.
C8_RecencyOrder ==
    /\ [](/\ KeySeq(ll) = ResidentByAccess
          /\ (lastOp = "Add" \/ (lastOp = "Get" /\ got[2]))
                => (ll # <<>> /\ ll[1].key = hist[1])
          /\ (lastOp = "Get" /\ got[2]) => ll[1].value = got[1])
    /\ [][(lastOp' \in {"Add", "RemoveOldest"} /\ Leaving # {})
             => /\ Leaving = {Len(ll)}
                /\ ll[Len(ll)].key = ResidentByAccess[Len(ResidentByAccess)]]_vars

\* capacity 2: Add A, Add B, Add C evicted A; B was then read, so the next
\* Add (of A) evicted C rather than B
C8_Witness ==
    /\ MaxEntries = 2
    /\ evicted = <<<<"A", 1>>, <<"C", 1>>>>
    /\ got = <<2, TRUE>>
    /\ KeySeq(ll) = <<"A", "B">>

\* the entries of l other than that of key k, in their order
Others(l, k) == SelectSeq(l, LAMBDA e : e.key # k)

\* C14: Add(k, v) on a key that is resident replaces its value by v and
\* moves its entry to the head of the recency list; Len() does not change,
\* no entry is evicted, the other entries keep their relative order and
\* OnEvicted is not called.
C14_AddResident ==
    \A k \in LruKeys, v \in LruValues :
        (~cacheNil /\ k \in cache) =>
            LET st == CacheAdd(CacheState, k, v)
            IN  /\ st.ll = <<Entry(k, v)>> \o Others(ll, k)
                /\ CacheLen(st) = CacheLen(CacheState)
                /\ st.cache = cache
                /\ st.evicted = evicted
                /\ ~st.nil

\* capacity 2: Add A, Add B and Add C (evicting A) left C before B; the
\* fourth operation, Add(B, 2) on the resident B, moved B to the head with
\* its new value and evicted nothing
C14_Witness ==
    /\ MaxEntries = 2 /\ OnEvicted /\ ~removedEver
    /\ nOps = 4 /\ lastOp = "Add"
    /\ evicted = <<<<"A", 1>>>>
    /\ ll = <<Entry("B", 2), Entry("C", 1)>>

\* C16: Remove(k) of a key that is not resident leaves the cache unchanged
\* and calls nothing; Remove(k) twice in a row leaves the cache as a single
\* Remove(k) does, with OnEvicted called for (k, value) once if k was
\* resident and OnEvicted is set, and not at all otherwise.
C16_RemoveIdempotent ==
    \A k \in LruKeys :
        LET st == CacheState
            r1 == CacheRemove(st, k)
            r2 == CacheRemove(r1, k)
            resident == ~cacheNil /\ k \in cache
        IN  /\ ~resident => r1 = st
            /\ r2 = r1
            /\ k \notin KeysOf(r2.ll) /\ k \notin r2.cache
            /\ r2.evicted =
                   IF resident /\ OnEvicted
                   THEN Append(evicted, <<k, ll[ElementOf(ll, k)].value>>)
                   ELSE evicted

\* Add(A, 1) then Remove of a key that is not resident: the entry of A is
\* still there and OnEvicted, though set, was not called
C16_Witness ==
    /\ OnEvicted /\ nOps = 2 /\ lastOp = "Remove"
    /\ ll = <<Entry("A", 1)>> /\ cache = {"A"}
    /\ evicted = <<>>

\* C20: the lookup table and the recency list hold the same keys, each key
\* once in the list, and Len() is the number of keys in the table; after
\* Clear both are gone and Len() is 0, and a later Add sets both up again.
C20_TableMatchesList ==
    /\ ~cacheNil =>
           /\ cache = KeysOf(ll)
           /\ \A i, j \in 1..Len(ll) : ll[i].key = ll[j].key => i = j
           /\ CacheLen(CacheState) = Cardinality(cache)
    /\ cacheNil =>
           /\ ll = <<>> /\ cache = {}
           /\ CacheLen(CacheState) = 0
    /\ \A k \in LruKeys, v \in LruValues :
           LET st == CacheAdd(CacheState, k, v)
           IN  ~st.nil /\ st.cache = KeysOf(st.ll) /\ k \in st.cache

\* an unbounded cache after Add, Add, Clear (two callbacks) and Add(C, 1)
C20_Witness ==
    /\ MaxEntries = 0 /\ OnEvicted
    /\ nOps = 4 /\ lastOp = "Add"
    /\ Len(evicted) = 2
    /\ ll = <<Entry("C", 1)>> /\ cache = {"C"} /\ ~cacheNil

-----------------------------------------------------------------------------
(***************************************************************************)
(* consistenthash.Map: properties                                          *)
(***************************************************************************)

InitSpecRing == InitRing /\ InitSF /\ LruIdle /\ PoolIdle

SpecRing == InitSpecRing /\ [][NextRing]_vars

\* the keys "0".."9" and "00".."49": their hashes lie below, between and
\* above the hashes of every ring built here (a replica hash is at most 39)
AllKeys == {<<a>> : a \in 0..9} \cup {<<a, b>> : a \in 0..4, b \in 0..9}
RingHashes == {keys[i] : i \in 1..Len(keys)}
SetMin(S) == CHOOSE x \in S : \A y \in S : x <= y

\* linear scan: the owner of the smallest ring hash >= h, or, when there is
\* none, of the smallest ring hash
ScanOwner(h) ==
    LET above == {x \in RingHashes : x >= h}
    IN  IF above = {} THEN hashMap[SetMin(RingHashes)] ELSE hashMap[SetMin(above)]

\* C9: on a non-empty ring Get(key) returns the owner bound to the smallest
\* ring hash >= H(key), wrapping to the smallest ring hash when H(key) is
\* greater than all of them: the result of the linear scan, for every key.
\* An empty ring returns the empty string.
C9_GetIsLinearScan ==
    /\ keys # <<>> =>
          \A k \in AllKeys : MapGet(Ring, k) = ScanOwner(ApplyHash(hash, k))
    /\ keys = <<>> => \A k \in AllKeys : MapGet(Ring, k) = EmptyString
    /\ RingHashes = DOMAIN hashMap

\* the ring of "6", "4", "2" with three replicas and the decimal hash:
\* Get("27") wrapped around to the owner of hash 2
C9_Witness ==
    /\ hash = "decimal"
    /\ keys = <<2, 4, 6, 12, 14, 16, 22, 24, 26>>
    /\ owner = <<<<2, 7>>, <<2>>>>

\* C10 as stated: after every Add the ring hashes are strictly ascending.
C10_StrictlySorted ==
    \A i \in 1..(Len(keys) - 1) : keys[i] < keys[i + 1]

\* C10 amended: after every Add the ring hashes are ascending, keys[i] <=
\* keys[i+1], one per replica of each member added; they are strictly
\* ascending exactly when no hash was appended twice (no member added twice,
\* no colliding replica hashes).
C10_Sorted ==
    /\ \A i \in 1..(Len(keys) - 1) : keys[i] <= keys[i + 1]
    /\ Len(keys) = replicas * Len(added)
    /\ C10_StrictlySorted <=> Len(keys) = Cardinality(DOMAIN hashMap)

\* "6" was added twice with three replicas: each hash is on the ring twice
C10_Witness ==
    /\ hash = "decimal"
    /\ added = <<<<6>>, <<6>>>>
    /\ keys = <<6, 6, 16, 16, 26, 26>>

\* the members on the ring, and the replica hashes of one member
MemberSet == {added[i] : i \in 1..Len(added)}
ReplicaHashes(mem) == {ApplyHash(hash, Itoa(i) \o mem) : i \in 0..(replicas - 1)}
\* the members of S in ascending (TRUE) or descending order of their number
RECURSIVE InOrder(_, _)
InOrder(S, asc) ==
    IF S = {} THEN <<>>
    ELSE LET x == CHOOSE y \in S : \A z \in S :
                     IF asc THEN ParseDecimal(y) <= ParseDecimal(z)
                     ELSE ParseDecimal(y) >= ParseDecimal(z)
         IN  <<x>> \o InOrder(S \ {x}, asc)
\* another ring with the same replicas and hash, built from the same member
\* set by a single Add
RebuiltRing(asc) ==
    MapAdd([replicas |-> replicas, hash |-> hash, keys |-> <<>>, hashMap |-> <<>>],
           InOrder(MemberSet, asc))
SameOwners(r1, r2) == \A k \in AllKeys : MapGet(r1, k) = MapGet(r2, k)
\* no two distinct members share a replica hash
NoCollision ==
    \A a, b \in MemberSet : a # b => ReplicaHashes(a) \cap ReplicaHashes(b) = {}
\* the member added last among those with h as a replica hash
LastWriter(h) ==
    LET at == {i \in 1..Len(added) : h \in ReplicaHashes(added[i])}
    IN  added[CHOOSE i \in at : \A j \in at : j <= i]

\* C11 as stated: a ring returns for every key the same owner as any other
\* ring with the same replicas and hash built from the same set of members,
\* whatever the order or grouping of the Add calls.
C11_OrderIndependent ==
    SameOwners(Ring, RebuiltRing(TRUE)) /\ SameOwners(Ring, RebuiltRing(FALSE))

\* C11 amended: every ring hash is bound to the member added last among those
\* that hash to it; so rings built from the same member set in any order or
\* grouping return the same owner for every key provided no two distinct
\* members share a replica hash.
C11_Deterministic ==
    /\ \A h \in DOMAIN hashMap : hashMap[h] = LastWriter(h)
    /\ NoCollision =>
          (SameOwners(Ring, RebuiltRing(TRUE)) /\ SameOwners(Ring, RebuiltRing(FALSE)))

\* "6", "4", "2" were added in that order by separate or joint Adds
C11_Witness ==
    /\ hash = "decimal"
    /\ replicas = 3
    /\ added = <<<<6>>, <<4>>, <<2>>>>
    /\ NoCollision

\* the members appended by the step
NewMembers == {added'[i] : i \in (Len(added) + 1)..Len(added')}

\* C15: an Add changes the owner of a key only to a member it adds: for every
\* key the owner after the Add is the owner before it or an added member.
C15_StableUnderAdd ==
    [][added' # added =>
          \A k \in AllKeys : MapGet(Ring', k) \in {MapGet(Ring, k)} \cup NewMembers]_vars

\* "8" joined the ring of "4" and "2" and took over key "27"
C15_Witness ==
    /\ hash = "decimal"
    /\ replicas = 3
    /\ added = <<<<4>>, <<2>>, <<8>>>>
    /\ owner = <<<<2, 7>>, <<8>>>>

-----------------------------------------------------------------------------
(***************************************************************************)
(* HTTPPool: properties                                                    *)
(***************************************************************************)

InitSpecPool == InitPool /\ InitSF /\ LruIdle /\ RingIdle

SpecPool == InitSpecPool /\ [][NextPool]_vars

\* the owner of key k on the ring rm by linear scan over its hashes
PoolOwner(rm, k) ==
    LET hs == {rm.keys[i] : i \in 1..Len(rm.keys)}
        h == ApplyHash(rm.hash, k)
        above == {x \in hs : x >= h}
    IN  IF above = {} THEN rm.hashMap[SetMin(hs)] ELSE rm.hashMap[SetMin(above)]

\* the members of the ring rm
RingMembers(rm) == {rm.hashMap[h] : h \in DOMAIN rm.hashMap}

\* C12: PickPeer(key) returns found=false exactly when the ring it reads
\* is empty or the ring owner of key is the pool's self name; otherwise it
\* returns found=true with the getter registered for the ring owner of key
\* (the getter whose base URL is that owner followed by the base path).
C12_PickPeerContract ==
    \A t \in Threads :
        picked[t].done =>
            LET rm == seen[t].peers
                k == seen[t].key
                noPeer == Len(rm.keys) = 0 \/ PoolOwner(rm, k) = self
            IN  /\ picked[t].found = ~noPeer
                /\ noPeer => picked[t].getter = NilGetter
                /\ ~noPeer =>
                       /\ picked[t].getter = seen[t].httpGetters[PoolOwner(rm, k)]
                       /\ picked[t].getter = Getter(PoolOwner(rm, k))

\* a PickPeer has returned each outcome: a remote owner's getter for one
\* thread, found=false on a non-empty ring owned by self for the other
C12_Witness ==
    /\ picked["t1"].done /\ picked["t1"].found
    /\ picked["t1"].getter = Getter(<<6>>)
    /\ picked["t2"].done /\ ~picked["t2"].found
    /\ Len(seen["t2"].peers.keys) > 0

\* the ring and the getters a completed Set(list) leaves behind; the state
\* of a new pool when no Set has completed
ConfigAfter(list) ==
    IF list = NoSet THEN [peers |-> NewPeers, httpGetters |-> <<>>]
    ELSE [peers |-> MapAdd(NewPeers, list),
          httpGetters |-> [x \in {list[i] : i \in 1..Len(list)} |-> Getter(x)]]

\* C13: Set rebuilds the ring and the getters atomically with respect to
\* PickPeer: every PickPeer decides on the complete ring and getters of the
\* last Set that completed before it read them (the old set while a new Set
\* has not finished, the new one afterwards), never on a ring or getters
\* that a Set in progress has emptied or partly filled, and never on the
\* ring of one Set with the getters of another.
C13_SetAtomic ==
    /\ \A t \in Threads :
           picked[t].done =>
               /\ seen[t].peers = ConfigAfter(seenSet[t]).peers
               /\ seen[t].httpGetters = ConfigAfter(seenSet[t]).httpGetters
               /\ picked[t] = PickPeerResult(ConfigAfter(seenSet[t]).peers,
                                             ConfigAfter(seenSet[t]).httpGetters,
                                             seen[t].key)
    /\ poolMu = NoThread =>
           [peers |-> peers, httpGetters |-> httpGetters] = ConfigAfter(current)

\* t2's PickPeer has read the pool after Set(4, 6) completed and while t1's
\* Set(2, 6) has been called and waits for the mutex
C13_Witness ==
    /\ tpc["t1"] = "L285" /\ targ["t1"] = << <<2>>, <<6>> >>
    /\ tpc["t2"] = "L308" /\ picked["t2"].done
    /\ seenSet["t2"] = << <<4>>, <<6>> >>
    /\ seen["t2"].httpGetters = [x \in {<<4>>, <<6>>} |-> Getter(x)]

\* C19: whenever no Set is inside its critical section, every member of the
\* ring has a getter in httpGetters; and no PickPeer returns found=true
\* together with a nil peer handle.
C19_MembersHaveGetters ==
    /\ poolMu = NoThread =>
           \A mem \in RingMembers(peers) :
               mem \in DOMAIN httpGetters /\ httpGetters[mem] # NilGetter
    /\ \A t \in Threads :
           (picked[t].done /\ picked[t].found) => picked[t].getter # NilGetter

\* two Sets have completed and a PickPeer then returned a peer
C19_Witness ==
    /\ nCalls = 3 /\ poolMu = NoThread
    /\ current = << <<6>>, <<4>> >>
    /\ RingMembers(peers) = {<<4>>, <<6>>}
    /\ \E t \in Threads : picked[t].done /\ picked[t].found /\ seenSet[t] = current

=============================================================================
